---- MODULE Spec2Model ----
(***************************************************************************)
(* Model of the account balance API (server.ts):                           *)
(*   json() body parser -> calculateBalanceValidation ->                   *)
(*   handleValidationErrors -> POST /calculate-balance handler,            *)
(*   and GET /health.                                                      *)
(*                                                                         *)
(* Numbers are integers held as decimal digit sequences (most significant  *)
(* digit first), so that the 2^53 limit of the IEEE double the response    *)
(* carries and the 20 significant digits decimal.js keeps are the real     *)
(* ones.  Strings are sequences of characters.                             *)
(***************************************************************************)
EXTENDS Integers, Sequences, FiniteSets, TLC

(***************************************************************************)
(* Bounds of the model.                                                    *)
(***************************************************************************)
\* longest transactions array a request carries
MaxTx == 2
\* largest small amount a transaction carries (amounts are 0..MaxAmount)
MaxAmount == 1

(***************************************************************************)
(* Digit sequences: magnitudes without leading zeros, zero is <<0>>.       *)
(***************************************************************************)
RECURSIVE Reverse(_)
Reverse(s) == IF s = <<>> THEN <<>> ELSE Append(Reverse(Tail(s)), Head(s))

RECURSIVE StripZeros(_)
StripZeros(d) ==
  IF Len(d) > 1 /\ Head(d) = 0 THEN StripZeros(Tail(d)) ELSE d

RECURSIVE Zeros(_)
Zeros(n) == IF n <= 0 THEN <<>> ELSE <<0>> \o Zeros(n - 1)

RECURSIVE LexLess(_, _)
LexLess(a, b) ==
  IF a = <<>> THEN FALSE
  ELSE IF Head(a) # Head(b) THEN Head(a) < Head(b)
  ELSE LexLess(Tail(a), Tail(b))

MagLess(a, b) ==
  IF Len(a) # Len(b) THEN Len(a) < Len(b) ELSE LexLess(a, b)

\* a, b least significant digit first
RECURSIVE AddRev(_, _, _)
AddRev(a, b, c) ==
  IF a = <<>> /\ b = <<>> THEN (IF c = 0 THEN <<>> ELSE <<c>>)
  ELSE LET x == IF a = <<>> THEN 0 ELSE Head(a)
           y == IF b = <<>> THEN 0 ELSE Head(b)
           t == x + y + c
       IN <<t % 10>> \o AddRev(IF a = <<>> THEN a ELSE Tail(a),
                               IF b = <<>> THEN b ELSE Tail(b), t \div 10)

MagAdd(a, b) == StripZeros(Reverse(AddRev(Reverse(a), Reverse(b), 0)))

\* a - b for a >= b, least significant digit first
RECURSIVE SubRev(_, _, _)
SubRev(a, b, c) ==
  IF a = <<>> THEN <<>>
  ELSE LET y == IF b = <<>> THEN 0 ELSE Head(b)
           t == Head(a) - y - c
       IN <<(t + 10) % 10>> \o SubRev(Tail(a), IF b = <<>> THEN b ELSE Tail(b),
                                      IF t < 0 THEN 1 ELSE 0)

MagSub(a, b) == StripZeros(Reverse(SubRev(Reverse(a), Reverse(b), 0)))

\* remainder of the magnitude d modulo the small integer m
RECURSIVE MagMod(_, _, _)
MagMod(d, m, r) ==
  IF d = <<>> THEN r ELSE MagMod(Tail(d), m, (r * 10 + Head(d)) % m)

RECURSIVE NatDigits(_)
NatDigits(n) == IF n < 10 THEN <<n>> ELSE Append(NatDigits(n \div 10), n % 10)

RECURSIVE TrailingZeros(_)
TrailingZeros(d) ==
  IF d = <<>> \/ d[Len(d)] # 0 THEN 0
  ELSE 1 + TrailingZeros(SubSeq(d, 1, Len(d) - 1))

\* significant digits of a magnitude (coefficient without trailing zeros)
SigDigits(d) == IF d = <<0>> THEN 1 ELSE Len(d) - TrailingZeros(d)

(***************************************************************************)
(* Signed integers: [s |-> 1 or -1, d |-> magnitude].                      *)
(***************************************************************************)
Big(s, d) == [s |-> IF d = <<0>> THEN 1 ELSE s, d |-> d]
Zero == Big(1, <<0>>)
Small(n) == IF n < 0 THEN Big(-1, NatDigits(-n)) ELSE Big(1, NatDigits(n))
Neg(x) == Big(-x.s, x.d)
IsNegative(x) == x.s = -1 /\ x.d # <<0>>

\* exact integer addition
ExactAdd(x, y) ==
  IF x.s = y.s THEN Big(x.s, MagAdd(x.d, y.d))
  ELSE IF MagLess(x.d, y.d) THEN Big(y.s, MagSub(y.d, x.d))
  ELSE Big(x.s, MagSub(x.d, y.d))

ExactSub(x, y) == ExactAdd(x, Neg(y))

(***************************************************************************)
(* decimal.js: a Decimal keeps PRECISION significant digits; plus and      *)
(* minus return the exact result rounded to them, half away from zero      *)
(* (the library defaults: precision 20, rounding ROUND_HALF_UP).           *)
(***************************************************************************)
PRECISION == 20

RoundSig(d, p) ==
  IF Len(d) <= p THEN d
  ELSE LET keep == SubSeq(d, 1, p)
           up   == IF d[p + 1] >= 5 THEN MagAdd(keep, <<1>>) ELSE keep
       IN up \o Zeros(Len(d) - p)

finalise(x) == Big(x.s, RoundSig(x.d, PRECISION))

plus(x, y) == finalise(ExactAdd(x, y))

minus(x, y) == finalise(ExactSub(x, y))

(***************************************************************************)
(* IEEE-754 double: 53-bit significand, round to nearest, ties to even.    *)
(***************************************************************************)
\* 2^53: every integer up to it is a double
TwoPow53 == <<9, 0, 0, 7, 1, 9, 9, 2, 5, 4, 7, 4, 0, 9, 9, 2>>

RECURSIVE IntPow2(_)
IntPow2(n) == IF n = 0 THEN 1 ELSE 2 * IntPow2(n - 1)

\* least k >= 0 with m < 2^(53 + k), p being 2^(53 + k): the doubles near m
\* are the multiples of 2^k
RECURSIVE UlpExp(_, _, _)
UlpExp(m, k, p) ==
  IF MagLess(m, p) THEN k ELSE UlpExp(m, k + 1, MagAdd(p, p))

RoundToDouble(m) ==
  LET k == UlpExp(m, 0, TwoPow53) IN
  IF k = 0 THEN m
  ELSE LET u    == IntPow2(k)
           r2   == MagMod(m, 2 * u, 0)
           r1   == r2 % u
           down == MagSub(m, NatDigits(r1))
           up   == MagAdd(down, NatDigits(u))
       IN IF 2 * r1 < u THEN down
          ELSE IF 2 * r1 > u THEN up
          ELSE IF r2 < u THEN down ELSE up

\* Decimal.prototype.toNumber
toNumber(x) == Big(x.s, RoundToDouble(x.d))

\* the values a JSON number can have: the integers that are doubles
IsDouble(x) == toNumber(x) = x

(***************************************************************************)
(* Strings are sequences of one-character strings.                         *)
(***************************************************************************)
DigitChars == <<"0", "1", "2", "3", "4", "5", "6", "7", "8", "9">>

IsDigitChar(c) == \E i \in 1..10 : DigitChars[i] = c

DigitValue(c) == (CHOOSE i \in 1..10 : DigitChars[i] = c) - 1

AllDigits(str) == \A i \in 1..Len(str) : IsDigitChar(str[i])

DigitsToChars(d) == [i \in 1..Len(d) |-> DigitChars[d[i] + 1]]

CharsToDigits(str) == [i \in 1..Len(str) |-> DigitValue(str[i])]

CREDIT == <<"c", "r", "e", "d", "i", "t">>
DEBIT == <<"d", "e", "b", "i", "t">>
OBJECT_STRING ==
  <<"[", "o", "b", "j", "e", "c", "t", " ", "O", "b", "j", "e", "c", "t", "]">>

\* the first position of str holding one of the characters cs, 0 if none
FirstOf(str, cs) ==
  IF \E i \in 1..Len(str) : str[i] \in cs
  THEN CHOOSE i \in 1..Len(str) :
         str[i] \in cs /\ \A j \in 1..(i - 1) : str[j] \notin cs
  ELSE 0

Unsigned(str) ==
  IF str # <<>> /\ Head(str) \in {"+", "-"} THEN Tail(str) ELSE str

(***************************************************************************)
(* JavaScript values of a parsed JSON body.                                *)
(***************************************************************************)
JUndefined == [k |-> "undefined"]
JNumber(x) == [k |-> "number", n |-> x]
JString(str) == [k |-> "string", c |-> str]
JArray(elems) == [k |-> "array", e |-> elems]
JTransaction(type, amount) == [k |-> "object", type |-> type, amount |-> amount]
JBody(initialBalance, transactions) ==
  [k |-> "object", initialBalance |-> initialBalance,
   transactions |-> transactions]

\* Number.prototype.toString of an integer double: the digits up to 21 of
\* them, exponent notation from 1e21 on
ExponentFrom == 21

NumberToString(x) ==
  LET sign == IF IsNegative(x) THEN <<"-">> ELSE <<>>
      sig  == SubSeq(x.d, 1, SigDigits(x.d))
  IN IF Len(x.d) <= ExponentFrom THEN sign \o DigitsToChars(x.d)
     ELSE sign \o DigitsToChars(<<Head(sig)>>)
          \o (IF Len(sig) > 1 THEN <<".">> \o DigitsToChars(Tail(sig)) ELSE <<>>)
          \o <<"e", "+">> \o DigitsToChars(NatDigits(Len(x.d) - 1))

\* String(value), as express-validator's toString calls it
RECURSIVE toString(_)
RECURSIVE Join(_)
Join(elems) ==
  IF elems = <<>> THEN <<>>
  ELSE IF Len(elems) = 1 THEN toString(elems[1])
  ELSE toString(elems[1]) \o <<",">> \o Join(Tail(elems))

toString(v) ==
  CASE v.k = "undefined" -> <<>>
    [] v.k = "number"    -> NumberToString(v.n)
    [] v.k = "string"    -> v.c
    [] v.k = "array"     -> Join(v.e)
    [] v.k = "object"    -> OBJECT_STRING

(***************************************************************************)
(* validator.js                                                            *)
(***************************************************************************)
\* /^[+-]?([0-9]*[.])?[0-9]+$/
isNumeric(str) ==
  LET u   == Unsigned(str)
      dot == FirstOf(u, {"."})
  IN IF dot = 0 THEN u # <<>> /\ AllDigits(u)
     ELSE /\ AllDigits(SubSeq(u, 1, dot - 1))
          /\ dot < Len(u)
          /\ AllDigits(SubSeq(u, dot + 1, Len(u)))

\* /^(?:[-+])?(?:[0-9]+)?(?:\.[0-9]*)?(?:[eE][\+\-]?(?:[0-9]+))?$/
FloatSyntax(str) ==
  LET u    == Unsigned(str)
      e    == FirstOf(u, {"e", "E"})
      mant == IF e = 0 THEN u ELSE SubSeq(u, 1, e - 1)
      expo == IF e = 0 THEN <<>> ELSE Unsigned(SubSeq(u, e + 1, Len(u)))
      dot  == FirstOf(mant, {"."})
  IN /\ IF dot = 0 THEN AllDigits(mant)
        ELSE /\ AllDigits(SubSeq(mant, 1, dot - 1))
             /\ AllDigits(SubSeq(mant, dot + 1, Len(mant)))
     /\ e # 0 => (expo # <<>> /\ AllDigits(expo))

\* parseFloat(str) < 0, for a string of float syntax
ParsesNegative(str) ==
  /\ str # <<>> /\ Head(str) = "-"
  /\ LET u    == Tail(str)
         e    == FirstOf(u, {"e", "E"})
         mant == IF e = 0 THEN u ELSE SubSeq(u, 1, e - 1)
     IN \E i \in 1..Len(mant) : IsDigitChar(mant[i]) /\ mant[i] # "0"

\* isFloat(str, { min: 0 })
isFloatMin0(str) ==
  /\ str \notin {<<>>, <<".">>, <<"-">>, <<"+">>}
  /\ FloatSyntax(str)
  /\ ~ParsesNegative(str)

isEmpty(str) == Len(str) = 0

isIn(str, values) == str \in values

(***************************************************************************)
(* new Decimal(v): a number is read through its string, a string is        *)
(* parsed, anything else throws a DecimalError.                            *)
(***************************************************************************)
\* an integer in plain or in exponent notation, as NumberToString writes it
IsDecimalString(str) ==
  LET u    == IF str # <<>> /\ Head(str) = "-" THEN Tail(str) ELSE str
      e    == FirstOf(u, {"e"})
      mant == IF e = 0 THEN u ELSE SubSeq(u, 1, e - 1)
      expo == IF e = 0 THEN <<>> ELSE Unsigned(SubSeq(u, e + 1, Len(u)))
      dot  == FirstOf(mant, {"."})
  IN /\ mant # <<>>
     /\ IF dot = 0 THEN AllDigits(mant)
        ELSE /\ dot = 2 /\ IsDigitChar(mant[1])
             /\ AllDigits(SubSeq(mant, 3, Len(mant)))
     /\ e # 0 => (expo # <<>> /\ AllDigits(expo))

RECURSIVE DigitsToNat(_, _)
DigitsToNat(d, acc) ==
  IF d = <<>> THEN acc ELSE DigitsToNat(Tail(d), acc * 10 + Head(d))

parseDecimal(str) ==
  LET neg  == str # <<>> /\ Head(str) = "-"
      u    == IF neg THEN Tail(str) ELSE str
      e    == FirstOf(u, {"e"})
      mant == IF e = 0 THEN u ELSE SubSeq(u, 1, e - 1)
      expo == IF e = 0 THEN 0
              ELSE DigitsToNat(CharsToDigits(Unsigned(SubSeq(u, e + 1, Len(u)))), 0)
      dot  == FirstOf(mant, {"."})
      coef == IF dot = 0 THEN mant
              ELSE SubSeq(mant, 1, dot - 1) \o SubSeq(mant, dot + 1, Len(mant))
      frac == IF dot = 0 THEN 0 ELSE Len(mant) - dot
  IN Big(IF neg THEN -1 ELSE 1,
         StripZeros(CharsToDigits(coef) \o Zeros(expo - frac)))

DecimalError(v) ==
  [isError |-> TRUE,
   message |-> <<"[DecimalError] Invalid argument: ">>
               \o (IF v.k = "undefined" THEN <<"undefined">> ELSE toString(v))]

Decimal(v) ==
  IF v.k = "number"
  THEN [ok |-> TRUE, val |-> parseDecimal(NumberToString(v.n))]
  ELSE IF v.k = "string" /\ IsDecimalString(v.c)
  THEN [ok |-> TRUE, val |-> parseDecimal(v.c)]
  ELSE [ok |-> FALSE, error |-> DecimalError(v)]

(***************************************************************************)
(* calculateBalanceValidation: the four express-validator chains.  Every   *)
(* validator of a chain runs (no bail) and adds its own error record.      *)
(***************************************************************************)
FieldError(path, index, msg) == [path |-> path, index |-> index, msg |-> msg]

RECURSIVE Flatten(_)
Flatten(seqs) == IF seqs = <<>> THEN <<>> ELSE Head(seqs) \o Flatten(Tail(seqs))

initialBalanceChain(b) ==
  IF isNumeric(toString(b.initialBalance)) THEN <<>>
  ELSE <<FieldError("initialBalance", 0, "initialBalance must be a number")>>

\* faulty variant: the chain without notEmpty()
transactionsChain_NoNotEmpty(b) ==
  IF b.transactions.k = "array" THEN <<>>
  ELSE <<FieldError("transactions", 0, "transactions must be an array")>>

transactionsChain(b) ==
  (IF b.transactions.k = "array" THEN <<>>
   ELSE <<FieldError("transactions", 0, "transactions must be an array")>>)
  \o
  (IF ~isEmpty(toString(b.transactions)) THEN <<>>
   ELSE <<FieldError("transactions", 0, "transactions array cannot be empty")>>)

\* the instances of the wildcard transactions.*
Wildcard(b) == IF b.transactions.k = "array" THEN b.transactions.e ELSE <<>>

typeChain(b) ==
  Flatten([i \in 1..Len(Wildcard(b)) |->
    IF isIn(toString(Wildcard(b)[i].type), {CREDIT, DEBIT}) THEN <<>>
    ELSE <<FieldError("transactions.type", i,
                      "Transaction type must be either \"credit\" or \"debit\"")>>])

\* faulty variant: the chain without isFloat({ min: 0 })
amountChain_NoMin(b) ==
  Flatten([i \in 1..Len(Wildcard(b)) |->
    IF isNumeric(toString(Wildcard(b)[i].amount)) THEN <<>>
    ELSE <<FieldError("transactions.amount", i,
                      "Transaction amount must be a number")>>])

amountChain(b) ==
  Flatten([i \in 1..Len(Wildcard(b)) |->
    (IF isNumeric(toString(Wildcard(b)[i].amount)) THEN <<>>
     ELSE <<FieldError("transactions.amount", i,
                       "Transaction amount must be a number")>>)
    \o
    (IF isFloatMin0(toString(Wildcard(b)[i].amount)) THEN <<>>
     ELSE <<FieldError("transactions.amount", i,
                       "Transaction amount must be a non-negative number")>>)])

\* faulty variant: validation stops at the first chain that fails
calculateBalanceValidation_FirstOnly(b) ==
  IF initialBalanceChain(b) # <<>> THEN initialBalanceChain(b)
  ELSE IF transactionsChain(b) # <<>> THEN transactionsChain(b)
  ELSE IF typeChain(b) # <<>> THEN <<typeChain(b)[1]>>
  ELSE IF amountChain(b) # <<>> THEN <<amountChain(b)[1]>>
  ELSE <<>>

calculateBalanceValidation(b) ==
  initialBalanceChain(b) \o transactionsChain(b) \o typeChain(b) \o amountChain(b)

(***************************************************************************)
(* The handler of POST /calculate-balance.                                 *)
(***************************************************************************)
\* faulty variant: a debit is added instead of subtracted
applyTransaction_DebitAdds(balance, type, amountDecimal) ==
  IF type = JString(CREDIT) THEN plus(balance, amountDecimal)
  ELSE IF type = JString(DEBIT) THEN plus(balance, amountDecimal)
  ELSE balance

\* one turn of the loop: the running balance after the transaction
applyTransaction(balance, type, amountDecimal) ==
  IF type = JString(CREDIT) THEN plus(balance, amountDecimal)
  ELSE IF type = JString(DEBIT) THEN minus(balance, amountDecimal)
  ELSE balance

\* the loop over the transactions; running holds the balances so far
RECURSIVE processTransactions(_, _)
processTransactions(txs, running) ==
  IF txs = <<>> THEN [ok |-> TRUE, running |-> running]
  ELSE LET amountDecimal == Decimal(Head(txs).amount) IN
       IF ~amountDecimal.ok
       THEN [ok |-> FALSE, running |-> running, error |-> amountDecimal.error]
       ELSE processTransactions(Tail(txs),
              Append(running, applyTransaction(running[Len(running)],
                                               Head(txs).type, amountDecimal.val)))

\* what for...of iterates: the elements of an array, the characters of a
\* string (destructuring one yields no type and no amount)
Iterated(v) ==
  IF v.k = "array" THEN v.e
  ELSE [i \in 1..Len(v.c) |-> JTransaction(JUndefined, JUndefined)]

NotIterable ==
  [isError |-> TRUE, message |-> <<"transactions is not iterable">>]

\* the try block up to the end of the loop
accumulate(b) ==
  LET balance == Decimal(b.initialBalance) IN
  IF ~balance.ok THEN [ok |-> FALSE, running |-> <<>>, error |-> balance.error]
  ELSE IF b.transactions.k \notin {"array", "string"}
  THEN [ok |-> FALSE, running |-> <<balance.val>>, error |-> NotIterable]
  ELSE processTransactions(Iterated(b.transactions), <<balance.val>>)

\* faulty variant: finalBalance > 0 ? 1 : 2
statusOf_ZeroIsOverdraft(finalBalance) ==
  IF ~IsNegative(finalBalance) /\ finalBalance # Zero THEN 1 ELSE 2

statusOf(finalBalance) == IF ~IsNegative(finalBalance) THEN 1 ELSE 2

CalculateBalanceResponse(balance) ==
  LET finalBalance == toNumber(balance) IN
  [status |-> 200,
   body |-> [finalBalance |-> finalBalance, status |-> statusOf(finalBalance)]]

\* faulty variant: the message of the thrown error is dropped
errorMessage_AlwaysUnknown(error) == <<"Unknown error">>

\* the catch block
errorMessage(error) == IF error.isError THEN error.message ELSE <<"Unknown error">>

InternalError(error) ==
  [status |-> 500,
   body |-> [error |-> "Internal server error", message |-> errorMessage(error)]]

\* the response of the handler, try and catch together
calculateBalance(b) ==
  LET acc == accumulate(b) IN
  IF acc.ok THEN CalculateBalanceResponse(acc.running[Len(acc.running)])
  ELSE InternalError(acc.error)

ValidationFailed(errs) ==
  [status |-> 400, body |-> [error |-> "Validation failed", details |-> errs]]

HealthResponse == [status |-> 200, body |-> [status |-> "ok"]]

\* what Express answers when json() cannot parse the body (its default
\* error handler, status 400 of the parser's error)
ParseFailed == [status |-> 400, body |-> [page |-> "entity.parse.failed"]]

(***************************************************************************)
(* The requests of the model.                                              *)
(***************************************************************************)
NOT_A_NUMBER == <<"n", "a", "n">>
INVALID == <<"i", "n", "v", "a", "l", "i", "d">>

\* 1e20 and 1e21 are doubles, as 2^53 is
TenPow20 == <<1>> \o Zeros(20)
TenPow21 == <<1>> \o Zeros(21)

SmallNumbers == {Small(n) : n \in (0 - MaxAmount)..MaxAmount}
LargeNumbers == {Big(1, TwoPow53), Big(1, TenPow20), Big(1, TenPow21)}

InitialBalances ==
  {JUndefined, JString(NOT_A_NUMBER), JString(<<"1">>), JArray(<<JNumber(Small(1))>>)}
  \cup {JNumber(x) : x \in SmallNumbers \cup LargeNumbers}

\* array elements: credits and debits of small amounts, and one transaction
\* for each way a transaction can be wrong
TransactionObjects ==
  {JTransaction(JString(t), JNumber(Small(n))) : t \in {CREDIT, DEBIT}, n \in 0..MaxAmount}
  \cup {JTransaction(JString(INVALID), JNumber(Small(1))),
        JTransaction(JString(CREDIT), JUndefined),
        JTransaction(JString(CREDIT), JString(NOT_A_NUMBER)),
        JTransaction(JString(DEBIT), JNumber(Small(-1))),
        JTransaction(JString(DEBIT), JArray(<<JNumber(Small(1))>>))}
  \cup {JTransaction(JString(t), JNumber(Big(1, TenPow20))) : t \in {CREDIT, DEBIT}}

RECURSIVE SeqsUpTo(_, _)
SeqsUpTo(S, n) ==
  IF n = 0 THEN {<<>>}
  ELSE LET shorter == SeqsUpTo(S, n - 1)
       IN shorter \cup {Append(q, x) : q \in {r \in shorter : Len(r) = n - 1}, x \in S}

TransactionsValues ==
  {JUndefined, JString(NOT_A_NUMBER)}
  \cup {JArray(txs) : txs \in SeqsUpTo(TransactionObjects, MaxTx)}

\* what a request carries: no body, a body that is not JSON, or a JSON object
NoBody == [k |-> "none"]
Malformed == [k |-> "malformed"]

CalculateRequests ==
  {[route |-> "POST /calculate-balance", payload |-> p] :
     p \in {NoBody, Malformed}
           \cup {JBody(ib, txs) : ib \in InitialBalances, txs \in TransactionsValues}}

HealthRequests ==
  {[route |-> "GET /health", payload |-> p] :
     p \in {NoBody, Malformed}
           \cup {JBody(ib, JUndefined) : ib \in InitialBalances}}

NoRequest == [route |-> "none", payload |-> NoBody]

(***************************************************************************)
(* The process: node is started on index.js or on server.js with some      *)
(* value of process.env.PORT; the modules are evaluated, app.listen is     *)
(* called, and the listening process serves connections side by side.      *)
(***************************************************************************)
\* connections the process serves at a time
MaxConcurrent == 2

Slots == 1..MaxConcurrent

DEFAULT_PORT == 3000

\* process.env.PORT: unset, or a string
PortValues ==
  {JUndefined, JString(<<"0">>), JString(<<"8", "0", "8", "0">>),
   JString(<<"a", "b", "c">>)}

\* Number(v) of undefined or of a string
Number(v) ==
  IF v.k = "undefined" THEN [nan |-> TRUE, n |-> 0]
  ELSE IF v.c = <<>> THEN [nan |-> FALSE, n |-> 0]
  ELSE IF AllDigits(v.c) THEN [nan |-> FALSE, n |-> DigitsToNat(CharsToDigits(v.c), 0)]
  ELSE [nan |-> TRUE, n |-> 0]

\* Number(process.env.PORT) || 3000
PORT(e) ==
  LET n == Number(e) IN IF n.nan \/ n.n = 0 THEN DEFAULT_PORT ELSE n.n

\* what "import app from './server.js'" binds: server.ts exports nothing
DefaultExport == JUndefined

\* the requests the connections carry
ConcurrentRequests ==
  {[route |-> "POST /calculate-balance", payload |-> p] :
     p \in {JBody(JNumber(Small(1)),
                  JArray(<<JTransaction(JString(DEBIT), JNumber(Small(1)))>>)),
            JBody(JNumber(Zero),
                  JArray(<<JTransaction(JString(DEBIT), JNumber(Small(1)))>>)),
            JBody(JUndefined, JArray(<<>>)),
            JBody(JNumber(Small(-1)),
                  JArray(<<JTransaction(JString(DEBIT),
                                        JArray(<<JNumber(Small(1))>>))>>))}}

VARIABLES entry, env, boot, listens, conn, seen

process == <<entry, env, boot, listens, conn, seen>>

NotEntered == [entered |-> FALSE, decimals |-> 0, running |-> <<>>]

IdleConn ==
  [req |-> NoRequest, pc |-> "idle", body |-> JBody(JUndefined, JUndefined),
   errors |-> <<>>, res |-> <<>>, calc |-> NotEntered]

\* node has not been started
ProcessOff ==
  /\ entry = "none"
  /\ env = JUndefined
  /\ boot = "off"
  /\ listens = <<>>
  /\ conn = [i \in Slots |-> IdleConn]
  /\ seen = {}

\* node dist/server.js with PORT unset, up and listening
ProcessUp ==
  /\ entry = "server"
  /\ env = JUndefined
  /\ boot = "up"
  /\ listens = <<PORT(JUndefined)>>
  /\ conn = [i \in Slots |-> IdleConn]
  /\ seen = {}

(***************************************************************************)
(* State: the request being served and how far it is through the           *)
(* middleware, req.body, the validation errors held on the request, the    *)
(* responses sent for it, what the handler did, and the status the         *)
(* previous request was answered with.                                     *)
(***************************************************************************)
VARIABLES req, pc, body, errors, res, calc, prev

vars == <<req, pc, body, errors, res, calc, prev>>

NoRequestInFlight ==
  /\ req = NoRequest
  /\ pc = "idle"
  /\ body = JBody(JUndefined, JUndefined)
  /\ errors = <<>>
  /\ res = <<>>
  /\ calc = NotEntered
  /\ prev = 0

Init == NoRequestInFlight /\ ProcessUp

\* the request r enters the middleware stack
Receive(r) ==
  /\ req' = r
  /\ pc' = "json"
  /\ body' = JBody(JUndefined, JUndefined)
  /\ errors' = <<>>
  /\ res' = <<>>
  /\ calc' = NotEntered
  /\ prev' = prev
  /\ UNCHANGED process

\* a request arrives once the one before it is answered
Arrive ==
  /\ pc = "idle"
  /\ \E r \in CalculateRequests \cup HealthRequests : Receive(r)

\* the response is on the wire: the server is free for the next request
Close ==
  /\ pc = "done"
  /\ prev' = res[Len(res)].status
  /\ req' = NoRequest
  /\ pc' = "idle"
  /\ body' = JBody(JUndefined, JUndefined)
  /\ errors' = <<>>
  /\ res' = <<>>
  /\ calc' = NotEntered
  /\ UNCHANGED process

\* app.use(json()): req.body is the parsed object, {} without a body; a body
\* that does not parse ends the request in Express's error handler
Json ==
  /\ pc = "json"
  /\ IF req.payload = Malformed
     THEN /\ res' = Append(res, ParseFailed)
          /\ pc' = "done"
          /\ body' = body
     ELSE /\ body' = IF req.payload = NoBody THEN JBody(JUndefined, JUndefined)
                     ELSE req.payload
          /\ pc' = IF req.route = "GET /health" THEN "health" ELSE "validation"
          /\ res' = res
  /\ UNCHANGED <<req, errors, calc, prev, process>>

Validation ==
  /\ pc = "validation"
  /\ errors' = calculateBalanceValidation(body)
  /\ pc' = "handleValidationErrors"
  /\ UNCHANGED <<req, body, res, calc, prev, process>>

\* faulty variant: no return after the 400, next() is called all the same
handleValidationErrors_NoReturn ==
  /\ pc = "handleValidationErrors"
  /\ res' = IF errors # <<>> THEN Append(res, ValidationFailed(errors)) ELSE res
  /\ pc' = "calculate"
  /\ UNCHANGED <<req, body, errors, calc, prev, process>>

handleValidationErrors ==
  /\ pc = "handleValidationErrors"
  /\ IF errors # <<>>
     THEN /\ res' = Append(res, ValidationFailed(errors))
          /\ pc' = "done"
     ELSE /\ res' = res
          /\ pc' = "calculate"
  /\ UNCHANGED <<req, body, errors, calc, prev, process>>

CalculateBalance ==
  /\ pc = "calculate"
  /\ LET acc == accumulate(body) IN
     calc' = [entered |-> TRUE,
              decimals |-> IF acc.ok THEN Len(acc.running)
                           ELSE IF acc.error = NotIterable THEN 1
                           ELSE Len(acc.running) + 1,
              running |-> acc.running]
  /\ res' = Append(res, calculateBalance(body))
  /\ pc' = "done"
  /\ UNCHANGED <<req, body, errors, prev, process>>

Health ==
  /\ pc = "health"
  /\ res' = Append(res, HealthResponse)
  /\ pc' = "done"
  /\ UNCHANGED <<req, body, errors, calc, prev, process>>

Next ==
  \/ Arrive
  \/ Json
  \/ Validation
  \/ handleValidationErrors
  \/ CalculateBalance
  \/ Health
  \/ Close

Spec == Init /\ [][Next]_vars

(***************************************************************************)
(* The process from its start, serving MaxConcurrent connections side by   *)
(* side.  A handler runs to completion once called (it never awaits);      *)
(* between the middleware of one request those of another may run.         *)
(***************************************************************************)
InitProcess == NoRequestInFlight /\ ProcessOff

\* node dist/index.js or node dist/server.js, with some PORT
Start ==
  /\ boot = "off"
  /\ \E e \in {"index", "server"}, v \in PortValues :
       /\ entry' = e
       /\ env' = v
       /\ boot' = IF e = "index" THEN "import" ELSE "evaluate"
  /\ UNCHANGED <<listens, conn, seen, vars>>

\* index.ts line 1.  Built as ES modules, the import of a default export
\* that server.js does not have fails when the modules are linked, before
\* any of them is evaluated; built as CommonJS, server.js is evaluated and
\* the binding is undefined
ImportServer ==
  /\ boot = "import"
  /\ \E modules \in {"esm", "commonjs"} :
       boot' = IF modules = "esm" /\ DefaultExport = JUndefined
               THEN "exited" ELSE "evaluate"
  /\ UNCHANGED <<entry, env, listens, conn, seen, vars>>

\* server.ts from top to bottom: the app is built, app.listen(PORT) called
EvaluateServer ==
  /\ boot = "evaluate"
  /\ listens' = Append(listens, PORT(env))
  /\ boot' = IF entry = "index" THEN "listen" ELSE "up"
  /\ UNCHANGED <<entry, env, conn, seen, vars>>

\* index.ts lines 3-7: app.listen(PORT) on the imported binding; on
\* undefined it throws a TypeError nothing catches, and the process exits
IndexListen ==
  /\ boot = "listen"
  /\ IF DefaultExport = JUndefined
     THEN /\ boot' = "exited"
          /\ listens' = listens
     ELSE /\ boot' \in {"up", "exited"}
          /\ listens' = Append(listens, PORT(env))
  /\ UNCHANGED <<entry, env, conn, seen, vars>>

\* faulty variant: the body is kept in one place for all requests
reqBody_Shared(i) == conn[1].body

\* req.body of the request on connection i
reqBody(i) == conn[i].body

\* the response goes out on connection i
Answer(i, response, c) ==
  /\ conn' = [conn EXCEPT ![i].res = Append(@, response),
                          ![i].calc = c,
                          ![i].pc = "done"]
  /\ seen' = seen \cup {[request |-> conn[i].req, response |-> response,
                         running |-> c.running]}

ArriveOf(i) ==
  /\ boot = "up"
  /\ conn[i].pc = "idle"
  /\ \E r \in ConcurrentRequests :
       conn' = [conn EXCEPT ![i] = [IdleConn EXCEPT !.req = r, !.pc = "json"]]
  /\ UNCHANGED <<entry, env, boot, listens, seen, vars>>

CloseOf(i) ==
  /\ conn[i].pc = "done"
  /\ conn' = [conn EXCEPT ![i] = IdleConn]
  /\ UNCHANGED <<entry, env, boot, listens, seen, vars>>

JsonOf(i) ==
  /\ conn[i].pc = "json"
  /\ IF conn[i].req.payload = Malformed
     THEN Answer(i, ParseFailed, NotEntered)
     ELSE /\ conn' = [conn EXCEPT
                        ![i].body = IF conn[i].req.payload = NoBody
                                    THEN JBody(JUndefined, JUndefined)
                                    ELSE conn[i].req.payload,
                        ![i].pc = "validation"]
          /\ seen' = seen
  /\ UNCHANGED <<entry, env, boot, listens, vars>>

ValidationOf(i) ==
  /\ conn[i].pc = "validation"
  /\ conn' = [conn EXCEPT ![i].errors = calculateBalanceValidation(reqBody(i)),
                          ![i].pc = "handleValidationErrors"]
  /\ UNCHANGED <<entry, env, boot, listens, seen, vars>>

handleValidationErrorsOf(i) ==
  /\ conn[i].pc = "handleValidationErrors"
  /\ IF conn[i].errors # <<>>
     THEN Answer(i, ValidationFailed(conn[i].errors), NotEntered)
     ELSE /\ conn' = [conn EXCEPT ![i].pc = "calculate"]
          /\ seen' = seen
  /\ UNCHANGED <<entry, env, boot, listens, vars>>

CalculateBalanceOf(i) ==
  /\ conn[i].pc = "calculate"
  /\ LET acc == accumulate(reqBody(i)) IN
     Answer(i, calculateBalance(reqBody(i)),
            [entered |-> TRUE,
             decimals |-> IF acc.ok THEN Len(acc.running)
                          ELSE IF acc.error = NotIterable THEN 1
                          ELSE Len(acc.running) + 1,
             running |-> acc.running])
  /\ UNCHANGED <<entry, env, boot, listens, vars>>

NextProcess ==
  \/ Start
  \/ ImportServer
  \/ EvaluateServer
  \/ IndexListen
  \/ \E i \in Slots : ArriveOf(i)
  \/ \E i \in Slots : JsonOf(i)
  \/ \E i \in Slots : ValidationOf(i)
  \/ \E i \in Slots : handleValidationErrorsOf(i)
  \/ \E i \in Slots : CalculateBalanceOf(i)
  \/ \E i \in Slots : CloseOf(i)

SpecProcess == InitProcess /\ [][NextProcess]_<<vars, process>>

(***************************************************************************)
(* Vocabulary of the properties.                                           *)
(***************************************************************************)
IsCalculate == req.route = "POST /calculate-balance"
IsHealth == req.route = "GET /health"
Answered == pc = "done"
Response == res[Len(res)]

\* the request body as the caller wrote it: typed as the interface says
IsNumber(v) == v.k = "number"
IsCreditOrDebit(v) == v = JString(CREDIT) \/ v = JString(DEBIT)
NonNumericString(v) ==
  v.k = "string" /\ \E i \in 1..Len(v.c) : v.c[i] \notin {"0", "1", "2", "3", "4", "5", "6", "7", "8", "9", "+", "-", "."}

WellTyped(b) ==
  /\ IsNumber(b.initialBalance)
  /\ b.transactions.k = "array"
  /\ b.transactions.e # <<>>
  /\ \A i \in 1..Len(b.transactions.e) :
       /\ IsCreditOrDebit(b.transactions.e[i].type)
       /\ IsNumber(b.transactions.e[i].amount)
       /\ ~IsNegative(b.transactions.e[i].amount.n)

\* initialBalance plus the credits minus the debits among the first k
\* transactions, in exact integer arithmetic
RECURSIVE ExactTotal(_, _)
ExactTotal(b, k) ==
  IF k = 0 THEN b.initialBalance.n
  ELSE LET tx == b.transactions.e[k] IN
       IF tx.type = JString(CREDIT) THEN ExactAdd(ExactTotal(b, k - 1), tx.amount.n)
       ELSE ExactSub(ExactTotal(b, k - 1), tx.amount.n)

NumTx(b) == Len(b.transactions.e)

\* a validated, well typed request the handler has answered
Calculated ==
  /\ Answered /\ IsCalculate /\ req.payload.k = "object"
  /\ WellTyped(body) /\ errors = <<>>

\* the significant decimal digits every double keeps (DBL_DIG)
DoubleDigits == 15

TotalsFit(b, digits) ==
  \A k \in 0..NumTx(b) : SigDigits(ExactTotal(b, k).d) <= digits

(***************************************************************************)
(* C1 as stated: for every validated request, finalBalance is              *)
(* initialBalance plus all credits minus all debits, every transaction     *)
(* applied exactly once.                                                   *)
(***************************************************************************)
C1_ExactForEveryRequest ==
  Calculated =>
    /\ res = <<Response>> /\ Response.status = 200
    /\ Len(calc.running) = NumTx(body) + 1
    /\ Response.body.finalBalance = ExactTotal(body, NumTx(body))

(***************************************************************************)
(* C1 amended: for every validated request whose initialBalance and        *)
(* running totals all have at most 15 significant decimal digits,          *)
(* finalBalance is initialBalance plus all credits minus all debits, every *)
(* transaction applied exactly once.                                       *)
(***************************************************************************)
C1_ExactWithin15Digits ==
  (Calculated /\ TotalsFit(body, DoubleDigits)) =>
    /\ res = <<Response>> /\ Response.status = 200
    /\ Len(calc.running) = NumTx(body) + 1
    /\ Response.body.finalBalance = ExactTotal(body, NumTx(body))

C1_Witness ==
  /\ Calculated /\ TotalsFit(body, DoubleDigits)
  /\ NumTx(body) = 2
  /\ body.transactions.e[1].type = JString(CREDIT)
  /\ body.transactions.e[2].type = JString(DEBIT)
  /\ body.transactions.e[1].amount.n # Zero
  /\ body.transactions.e[2].amount.n # Zero
  /\ Response.body.finalBalance = body.initialBalance.n

(***************************************************************************)
(* C2: in every 200 response of POST /calculate-balance, status is 2       *)
(* exactly when finalBalance is below zero and 1 exactly when it is zero   *)
(* or above.                                                               *)
(***************************************************************************)
BelowZero(x) == x.s = -1 /\ \E i \in 1..Len(x.d) : x.d[i] # 0

C2_StatusFollowsSign ==
  (Answered /\ IsCalculate /\ Response.status = 200) =>
    /\ Response.body.status \in {1, 2}
    /\ Response.body.status = 2 <=> BelowZero(Response.body.finalBalance)
    /\ Response.body.status = 1 <=> ~BelowZero(Response.body.finalBalance)

C2_Witness ==
  /\ Answered /\ IsCalculate /\ Response.status = 200
  /\ Response.body.finalBalance = Zero
  /\ Response.body.status = 1
  /\ body.initialBalance = JNumber(Small(1))
  /\ body.transactions = JArray(<<JTransaction(JString(DEBIT), JNumber(Small(1)))>>)

(***************************************************************************)
(* C3: a request with initialBalance missing or non-numeric, transactions  *)
(* missing, not an array or empty, or a transaction with a type outside    *)
(* {credit, debit} or an amount missing, negative or non-numeric is        *)
(* answered 400 "Validation failed".                                       *)
(***************************************************************************)
InitialBalanceMissing(b) == b.initialBalance.k = "undefined"
InitialBalanceNonNumeric(b) == NonNumericString(b.initialBalance)
TransactionsMissing(b) == b.transactions.k = "undefined"
TransactionsNotArray(b) == b.transactions.k \notin {"undefined", "array"}
TransactionsEmpty(b) == b.transactions.k = "array" /\ b.transactions.e = <<>>
Elements(b) == IF b.transactions.k = "array" THEN b.transactions.e ELSE <<>>
TypeInvalid(tx) == tx.type.k = "string" /\ tx.type.c \notin {CREDIT, DEBIT}
AmountMissing(tx) == tx.amount.k = "undefined"
AmountNegative(tx) == tx.amount.k = "number" /\ BelowZero(tx.amount.n)
AmountNonNumeric(tx) == NonNumericString(tx.amount)

RejectedShape(b) ==
  \/ InitialBalanceMissing(b) \/ InitialBalanceNonNumeric(b)
  \/ TransactionsMissing(b) \/ TransactionsNotArray(b) \/ TransactionsEmpty(b)
  \/ \E i \in 1..Len(Elements(b)) :
       \/ TypeInvalid(Elements(b)[i]) \/ AmountMissing(Elements(b)[i])
       \/ AmountNegative(Elements(b)[i]) \/ AmountNonNumeric(Elements(b)[i])

IsValidationFailure(r) ==
  /\ r.status = 400
  /\ DOMAIN r.body = {"error", "details"}
  /\ r.body.error = "Validation failed"

C4_RejectedBeforeComputation ==
  (IsCalculate /\ errors # <<>>) =>
    /\ pc # "calculate"
    /\ calc = NotEntered
    /\ \A i \in 1..Len(res) : res[i].status = 400
    /\ Answered => res = <<ValidationFailed(errors)>>

C4_Witness ==
  /\ Answered /\ IsCalculate /\ errors # <<>>
  /\ res = <<ValidationFailed(errors)>>
  /\ calc = NotEntered
  /\ WellTyped(JBody(JNumber(Zero), body.transactions))
  /\ InitialBalanceNonNumeric(body)

(***************************************************************************)
(* C5: the details of the 400 response hold a record for every violated    *)
(* field of the request, not only for the first.                           *)
(***************************************************************************)
HasRecord(details, path, index) ==
  \E i \in 1..Len(details) : details[i].path = path /\ details[i].index = index

C5_EveryViolatedField ==
  (Answered /\ IsCalculate /\ res # <<>> /\ IsValidationFailure(Response)) =>
    LET d == Response.body.details IN
    /\ (InitialBalanceMissing(body) \/ InitialBalanceNonNumeric(body))
         => HasRecord(d, "initialBalance", 0)
    /\ (TransactionsMissing(body) \/ TransactionsNotArray(body)
        \/ TransactionsEmpty(body)) => HasRecord(d, "transactions", 0)
    /\ \A i \in 1..Len(Elements(body)) :
         /\ TypeInvalid(Elements(body)[i]) => HasRecord(d, "transactions.type", i)
         /\ (AmountMissing(Elements(body)[i]) \/ AmountNegative(Elements(body)[i])
             \/ AmountNonNumeric(Elements(body)[i]))
              => HasRecord(d, "transactions.amount", i)

C5_Witness ==
  /\ Answered /\ IsCalculate /\ res # <<>> /\ IsValidationFailure(Response)
  /\ InitialBalanceNonNumeric(body)
  /\ Len(Elements(body)) = 2
  /\ TypeInvalid(Elements(body)[1])
  /\ AmountNegative(Elements(body)[2])
  /\ HasRecord(Response.body.details, "initialBalance", 0)
  /\ HasRecord(Response.body.details, "transactions.type", 1)
  /\ HasRecord(Response.body.details, "transactions.amount", 2)

(***************************************************************************)
(* C6: every request that passes validation is answered 200 with a         *)
(* BalanceResult, never with an error; an overdrawing debit is reported    *)
(* as a negative finalBalance with status 2.                               *)
(***************************************************************************)
IsBalanceResult(r) ==
  /\ r.status = 200
  /\ DOMAIN r.body = {"finalBalance", "status"}

C6_ValidatedIsAnswered200 ==
  (Answered /\ IsCalculate /\ calc.entered) =>
    res = <<Response>> /\ IsBalanceResult(Response)

(***************************************************************************)
(* C7: a transaction list followed by its pointwise inverse (credit and    *)
(* debit swapped, same amounts) returns finalBalance to initialBalance.    *)
(***************************************************************************)
Inverse(tx) ==
  JTransaction(IF tx.type = JString(CREDIT) THEN JString(DEBIT) ELSE JString(CREDIT),
               tx.amount)

ThenInverse(txs) ==
  /\ Len(txs) % 2 = 0
  /\ \A i \in 1..(Len(txs) \div 2) : txs[Len(txs) \div 2 + i] = Inverse(txs[i])

C7_RoundTrip ==
  (Calculated /\ ThenInverse(body.transactions.e) /\ Response.status = 200) =>
    Response.body.finalBalance = body.initialBalance.n

(***************************************************************************)
(* C8: every POST /calculate-balance gets exactly one response, and it is  *)
(* a complete BalanceResult (200), "Validation failed" with details (400)  *)
(* or "Internal server error" with a message (500).                        *)
(***************************************************************************)
IsInternalError(r) ==
  /\ r.status = 500
  /\ DOMAIN r.body = {"error", "message"}
  /\ r.body.error = "Internal server error"

DecimalArguments(b) ==
  <<b.initialBalance>> \o [i \in 1..Len(Elements(b)) |-> Elements(b)[i].amount]

\* the first of them that is no number and no string
FirstRejected(b) ==
  LET args == DecimalArguments(b)
      bad  == {i \in 1..Len(args) : args[i].k \notin {"number", "string"}}
  IN IF bad = {} THEN 0 ELSE CHOOSE i \in bad : \A j \in bad : i <= j

C9_ExceptionsCaught ==
  /\ errorMessage([isError |-> FALSE, message |-> <<"thrown">>]) = <<"Unknown error">>
  /\ (Answered /\ IsCalculate /\ calc.entered) =>
       /\ Len(res) = 1
       /\ Response.status \in {200, 500}
       /\ FirstRejected(body) # 0 =>
            Response =
              [status |-> 500,
               body |-> [error |-> "Internal server error",
                         message |-> <<"[DecimalError] Invalid argument: ">>
                           \o toString(DecimalArguments(body)[FirstRejected(body)])]]

\* a request answered 200 right after one that was answered 500
C9_Witness ==
  /\ Answered /\ IsCalculate /\ calc.entered
  /\ prev = 500
  /\ Response.status = 200

(***************************************************************************)
(* C10: GET /health is answered 200 {status: "ok"} whatever the request    *)
(* carries and whatever was served before.                                 *)
(***************************************************************************)
C10_HealthAlwaysOk ==
  (Answered /\ IsHealth) => res = <<HealthResponse>>

(***************************************************************************)
(* C11: under every interleaving of the requests on the connections, each  *)
(* request gets one response, and the response and the running balances    *)
(* behind it are those every request with the same body got, before it or  *)
(* beside it: they depend on the request's body alone.                     *)
(***************************************************************************)
C11_ResponseDependsOnBodyAlone ==
  /\ \A a, b \in seen : a.request = b.request => a = b
  /\ \A i \in Slots :
       /\ Len(conn[i].res) = (IF conn[i].pc = "done" THEN 1 ELSE 0)
       /\ conn[i].pc = "done" =>
            [request |-> conn[i].req, response |-> conn[i].res[1],
             running |-> conn[i].calc.running] \in seen
       /\ conn[i].pc # "done" => conn[i].calc = NotEntered

\* a request answered a second time, after every other request has been
\* answered, while another connection is about to compute a different body
C11_Witness ==
  /\ seen = {[request |-> r, response |-> calculateBalance(r.payload),
              running |-> accumulate(r.payload).running] :
               r \in {q \in ConcurrentRequests :
                        calculateBalanceValidation(q.payload) = <<>>}}
            \cup
            {[request |-> r,
              response |-> ValidationFailed(calculateBalanceValidation(r.payload)),
              running |-> <<>>] :
               r \in {q \in ConcurrentRequests :
                        calculateBalanceValidation(q.payload) # <<>>}}
  /\ conn[1].pc = "done" /\ conn[1].calc.entered
  /\ conn[1].res[1].status = 200
  /\ conn[2].pc = "calculate"
  /\ conn[2].req # conn[1].req

(***************************************************************************)
(* C14: once the process started on index.js has run its start-up,         *)
(* app.listen has been called exactly once, with PORT, which is 3000 when  *)
(* process.env.PORT is unset or is not a non-zero number; at no time have  *)
(* two calls been made.                                                    *)
(***************************************************************************)
StartedUp == boot \in {"up", "exited"}

C14_ListensExactlyOnce ==
  /\ Len(listens) <= 1
  /\ (entry = "index" /\ StartedUp) =>
       /\ Len(listens) = 1
       /\ listens[1] = (IF Number(env).nan \/ Number(env).n = 0
                        THEN 3000 ELSE Number(env).n)

(***************************************************************************)
(* C12: after the handler has processed the first k transactions of a      *)
(* validated request, for every k from 0 to the length of the list, the    *)
(* running balance is exactly initialBalance plus the signed sum of those  *)
(* k amounts, whatever the magnitude of the numbers.                       *)
(***************************************************************************)
C12_ExactAtEveryStep ==
  (Calculated /\ Response.status = 200) =>
    /\ Len(calc.running) = NumTx(body) + 1
    /\ \A k \in 0..NumTx(body) : calc.running[k + 1] = ExactTotal(body, k)

(***************************************************************************)
(* C13: the transactions of a validated request are applied one at a time  *)
(* in the order of the array, and every permutation of the array is        *)
(* answered with the same finalBalance and the same status.                *)
(***************************************************************************)
\* the rearrangements of the sequence txs
Permuted(txs) ==
  {[i \in 1..Len(txs) |-> txs[p[i]]] : p \in Permutations(1..Len(txs))}

AppliedInArrayOrder ==
  /\ Len(calc.running) = NumTx(body) + 1
  /\ calc.running[1] = Decimal(body.initialBalance).val
  /\ \A k \in 1..NumTx(body) :
       calc.running[k + 1] =
         applyTransaction(calc.running[k], body.transactions.e[k].type,
                          Decimal(body.transactions.e[k].amount).val)

C13_OrderIndependent ==
  (Calculated /\ Response.status = 200) =>
    /\ AppliedInArrayOrder
    /\ \A txs \in Permuted(body.transactions.e) :
         calculateBalance(JBody(body.initialBalance, JArray(txs))).body
           = Response.body

(***************************************************************************)
(* C15: in a validated request every credit leaves the running balance     *)
(* greater than or equal to its previous value and every debit less than   *)
(* or equal; a request with initialBalance >= 0 and only credits is        *)
(* answered status 1, and status 2 is answered only when initialBalance    *)
(* is below zero or the list holds a debit.                                *)
(***************************************************************************)
LessEq(x, y) ==
  IF x.s # y.s THEN x.s < y.s
  ELSE IF x.s = 1 THEN ~MagLess(y.d, x.d)
  ELSE ~MagLess(x.d, y.d)

\* initialBalance < 0, of the value the request carries
InitialBalanceBelowZero(b) ==
  \/ b.initialBalance.k = "number" /\ BelowZero(b.initialBalance.n)
  \/ b.initialBalance.k = "string" /\ ParsesNegative(b.initialBalance.c)

HasDebit(b) ==
  \E i \in 1..Len(Elements(b)) : Elements(b)[i].type = JString(DEBIT)

OnlyCredits(b) ==
  \A i \in 1..Len(Elements(b)) : Elements(b)[i].type = JString(CREDIT)

C15_MonotonePerKind ==
  (Answered /\ IsCalculate /\ calc.entered) =>
    /\ \A k \in 1..(Len(calc.running) - 1) :
         /\ Elements(body)[k].type = JString(CREDIT)
              => LessEq(calc.running[k], calc.running[k + 1])
         /\ Elements(body)[k].type = JString(DEBIT)
              => LessEq(calc.running[k + 1], calc.running[k])
    /\ Response.status = 200 =>
         /\ (~InitialBalanceBelowZero(body) /\ OnlyCredits(body))
              => Response.body.status = 1
         /\ Response.body.status = 2
              => (InitialBalanceBelowZero(body) \/ HasDebit(body))

\* -1, a credit that lifts the balance to 0, a debit that takes it back
C15_Witness ==
  /\ Answered /\ IsCalculate /\ calc.entered
  /\ Response.status = 200
  /\ calc.running = <<Small(-1), Zero, Small(-1)>>
  /\ Elements(body)[1].type = JString(CREDIT)
  /\ Elements(body)[2].type = JString(DEBIT)
  /\ Response.body.status = 2

====
